---- MODULE Spec2Model ----
(***************************************************************************)
(* Model of ProjectTwo.cpp (CS 300 advising assistance program).           *)
(*                                                                         *)
(* Strings are sequences of character codes (unsigned char values), so     *)
(* that trimming, upper-casing, comma splitting, hashing and the           *)
(* lexicographic comparison of std::string are computed as the code        *)
(* computes them.  44 is ',', 32 is ' ', 65.. are 'A'.., 97.. are 'a'..    *)
(*                                                                         *)
(* The menu loop is a state machine: pc = "menu" is the prompt,            *)
(* pc = "parse" is the getline loop of LoadCoursesFromFile (one action per *)
(* iteration, the line read being the input), and the end of file runs     *)
(* ValidatePrereqs, DetectCyclesAndMark, InsertValidated and the timing    *)
(* entry in one step.                                                      *)
(***************************************************************************)
EXTENDS Integers, Sequences, FiniteSets, TLC

VARIABLES pc, table, hasLoaded, summary, temp, inCycle, lines, fileOpen, out, feed

vars == <<pc, table, hasLoaded, summary, temp, inCycle, lines, fileOpen, out, feed>>

(* ------------------------------ bounds --------------------------------- *)
\* longest file (number of lines) a load reads
MaxLines == 3
\* largest number of records inserted directly into a store (sorting runs)
MaxRecords == 52

(* ------------------------- program constants --------------------------- *)
tableSize == 179
SortThreshold == 50

WHITE == 0
GRAY == 1
BLACK == 2

(* ------------------------- string utilities ---------------------------- *)
\* std::isspace in the "C" locale
IsSpace(ch) == ch = 32 \/ (ch >= 9 /\ ch <= 13)

\* std::toupper in the "C" locale
ToUpper(ch) == IF ch >= 97 /\ ch <= 122 THEN ch - 32 ELSE ch

SetMin(S) == CHOOSE x \in S : \A y \in S : x <= y
SetMax(S) == CHOOSE x \in S : \A y \in S : x >= y

ltrim(s) ==
    LET ns == {i \in 1..Len(s) : ~IsSpace(s[i])}
    IN  IF ns = {} THEN <<>> ELSE SubSeq(s, SetMin(ns), Len(s))

rtrim(s) ==
    LET ns == {i \in 1..Len(s) : ~IsSpace(s[i])}
    IN  IF ns = {} THEN <<>> ELSE SubSeq(s, 1, SetMax(ns))

trim(s) == rtrim(ltrim(s))

NormalizeCourse(raw) ==
    LET t == trim(raw) IN [i \in 1..Len(t) |-> ToUpper(t[i])]

\* std::string operator< : lexicographic on unsigned char
RECURSIVE StrLess(_, _)
StrLess(a, b) ==
    IF b = <<>> THEN FALSE
    ELSE IF a = <<>> THEN TRUE
    ELSE IF Head(a) < Head(b) THEN TRUE
    ELSE IF Head(a) > Head(b) THEN FALSE
    ELSE StrLess(Tail(a), Tail(b))

\* while (getline(ss, token, ',')) tokens.push_back(token);
\* a token is produced while characters (the delimiter included) remain
RECURSIVE SplitCSV(_)
SplitCSV(s) ==
    IF s = <<>> THEN <<>>
    ELSE LET cs == {i \in 1..Len(s) : s[i] = 44}
         IN  IF cs = {} THEN <<s>>
             ELSE <<SubSeq(s, 1, SetMin(cs) - 1)>>
                      \o SplitCSV(SubSeq(s, SetMin(cs) + 1, Len(s)))

(* ------------------------------ hash table ----------------------------- *)
\* 31-based rolling hash; the identifiers of the model are far too short
\* for the long long accumulator to overflow
RECURSIVE HashSum(_, _)
HashSum(key, sum) ==
    IF key = <<>> THEN sum ELSE HashSum(Tail(key), sum * 31 + Head(key))

Hash(key) ==
    LET sum == HashSum(key, 0)
    IN  (IF sum < 0 THEN -sum ELSE sum) % tableSize

\* HashTable(): every bucket is an empty chain
EmptyTable == [b \in 0..(tableSize - 1) |-> <<>>]

\* the chain of a bucket is a sequence, head first
InChain(chain, number) == \E i \in 1..Len(chain) : chain[i].number = number

\* HashTable::Insert : TRUE iff the course was stored (pushed at the head)
InsertOk(t, c) == ~InChain(t[Hash(c.number)], c.number)

Insert(t, c) ==
    IF InsertOk(t, c)
    THEN [t EXCEPT ![Hash(c.number)] = <<c>> \o @]
    ELSE t

NotFound == [found |-> FALSE]

\* HashTable::Search : normalizes the query, walks the chain
Search(t, courseNumber) ==
    LET key   == NormalizeCourse(courseNumber)
        chain == t[Hash(key)]
        hits  == {i \in 1..Len(chain) : chain[i].number = key}
    IN  IF hits = {} THEN NotFound
        ELSE [found |-> TRUE, course |-> chain[SetMin(hits)]]

\* HashTable::ToVector : buckets in index order, each chain head first
\* (the chains of buckets lo..hi, computed by halves)
RECURSIVE ToVectorRange(_, _, _)
ToVectorRange(t, lo, hi) ==
    IF lo > hi THEN <<>>
    ELSE IF lo = hi THEN t[lo]
    ELSE LET mid == (lo + hi) \div 2
         IN  ToVectorRange(t, lo, mid) \o ToVectorRange(t, mid + 1, hi)

ToVector(t) == ToVectorRange(t, 0, tableSize - 1)

(* --------------------------- load reporting ---------------------------- *)
\* LoadIssue {lineNo, type, detail}: the detail text is kept as the data it
\* is built from (the identifiers it names), not as rendered text
Issue(lineNo, type, detail) == [lineNo |-> lineNo, type |-> type, detail |-> detail]

\* LoadResultSummary with its default member initializers
EmptySummary ==
    [linesRead |-> 0, parsedCourses |-> 0, inserted |-> 0, duplicates |-> 0,
     unknownPrereqs |-> 0, selfPrereqs |-> 0, cycles |-> 0, issues |-> <<>>]

AddIssue(s, issue) == [s EXCEPT !.issues = Append(@, issue)]

(* ------------------------- pass 1: line parser ------------------------- *)
\* prerequisite tokens (index 3.. of the 1-based token sequence), normalized,
\* blanks ignored
RECURSIVE ParsePrereqs(_, _)
ParsePrereqs(tokens, i) ==
    IF i > Len(tokens) THEN <<>>
    ELSE LET p == NormalizeCourse(tokens[i])
         IN  (IF p # <<>> THEN <<p>> ELSE <<>>) \o ParsePrereqs(tokens, i + 1)

\* ParseLineCSV: [ok, number, title, prereqs, summary]
ParseLineCSV(line, lineNo, s) ==
    LET s1     == [s EXCEPT !.linesRead = @ + 1]
        tokens == SplitCSV(line)
        fail(sm) == [ok |-> FALSE, number |-> <<>>, title |-> <<>>,
                     prereqs |-> <<>>, summary |-> sm]
    IN  IF trim(line) = <<>> THEN fail(s1)
        ELSE IF Len(tokens) < 2
             THEN fail(AddIssue(s1, Issue(lineNo, "MissingField", <<>>)))
        ELSE LET outNumber  == NormalizeCourse(tokens[1])
                 outTitle   == trim(tokens[2])
                 outPrereqs == ParsePrereqs(tokens, 3)
             IN  IF outNumber = <<>>
                 THEN fail(AddIssue(s1, Issue(lineNo, "MissingField", <<>>)))
                 ELSE IF outTitle = <<>>
                 THEN fail(AddIssue(s1, Issue(lineNo, "MissingField", <<outNumber>>)))
                 ELSE [ok |-> TRUE, number |-> outNumber, title |-> outTitle,
                       prereqs |-> outPrereqs, summary |-> s1]

\* temp[number] = Course{number, title, prereqs}
PutCourse(tmp, number, title, prereqs) ==
    [k \in DOMAIN tmp \cup {number} |->
        IF k = number
        THEN [number |-> number, title |-> title, prereqs |-> prereqs]
        ELSE tmp[k]]

\* (mutant) a duplicate line is counted as a parsed course
LoadLine_countsDuplicate(tmp, s, line, lineNo) ==
    LET r == ParseLineCSV(line, lineNo, s)
    IN  IF ~r.ok THEN [temp |-> tmp, summary |-> r.summary]
        ELSE IF r.number \in DOMAIN tmp
        THEN [temp |-> tmp,
              summary |-> AddIssue([r.summary EXCEPT !.duplicates = @ + 1,
                                                     !.parsedCourses = @ + 1],
                                   Issue(lineNo, "Duplicate", <<r.number>>))]
        ELSE [temp |-> PutCourse(tmp, r.number, r.title, r.prereqs),
              summary |-> [r.summary EXCEPT !.parsedCourses = @ + 1]]

\* (mutant) a duplicate line overwrites the record: last occurrence wins
LoadLine_overwrites(tmp, s, line, lineNo) ==
    LET r == ParseLineCSV(line, lineNo, s)
    IN  IF ~r.ok THEN [temp |-> tmp, summary |-> r.summary]
        ELSE IF r.number \in DOMAIN tmp
        THEN [temp |-> PutCourse(tmp, r.number, r.title, r.prereqs),
              summary |-> AddIssue([r.summary EXCEPT !.duplicates = @ + 1],
                                   Issue(lineNo, "Duplicate", <<r.number>>))]
        ELSE [temp |-> PutCourse(tmp, r.number, r.title, r.prereqs),
              summary |-> [r.summary EXCEPT !.parsedCourses = @ + 1]]

\* body of the getline loop of LoadCoursesFromFile for one line:
\* [temp, summary]
LoadLine(tmp, s, line, lineNo) ==
    LET r == ParseLineCSV(line, lineNo, s)
    IN  IF ~r.ok THEN [temp |-> tmp, summary |-> r.summary]
        ELSE IF r.number \in DOMAIN tmp
        THEN [temp |-> tmp,
              summary |-> AddIssue([r.summary EXCEPT !.duplicates = @ + 1],
                                   Issue(lineNo, "Duplicate", <<r.number>>))]
        ELSE [temp |-> PutCourse(tmp, r.number, r.title, r.prereqs),
              summary |-> [r.summary EXCEPT !.parsedCourses = @ + 1]]

(* ----------------- pass 2A: prerequisite validation -------------------- *)
\* (mutant) a self prerequisite is counted and reported but not dropped
RECURSIVE ValidateFrom_keepsSelf(_, _, _, _, _)
ValidateFrom_keepsSelf(c, i, keys, keep, s) ==
    IF i > Len(c.prereqs) THEN [keep |-> keep, summary |-> s]
    ELSE LET p == c.prereqs[i]
         IN  IF p = c.number
             THEN ValidateFrom_keepsSelf(c, i + 1, keys, Append(keep, p),
                      AddIssue([s EXCEPT !.selfPrereqs = @ + 1],
                               Issue(0, "SelfPrereq", <<c.number>>)))
             ELSE IF p \notin keys
             THEN ValidateFrom_keepsSelf(c, i + 1, keys, keep,
                      AddIssue([s EXCEPT !.unknownPrereqs = @ + 1],
                               Issue(0, "UnknownPrereq", <<p, c.number>>)))
             ELSE ValidateFrom_keepsSelf(c, i + 1, keys, Append(keep, p), s)

\* (mutant) an unknown prerequisite is counted and reported but not dropped
RECURSIVE ValidateFrom_keepsUnknown(_, _, _, _, _)
ValidateFrom_keepsUnknown(c, i, keys, keep, s) ==
    IF i > Len(c.prereqs) THEN [keep |-> keep, summary |-> s]
    ELSE LET p == c.prereqs[i]
         IN  IF p = c.number
             THEN ValidateFrom_keepsUnknown(c, i + 1, keys, keep,
                      AddIssue([s EXCEPT !.selfPrereqs = @ + 1],
                               Issue(0, "SelfPrereq", <<c.number>>)))
             ELSE IF p \notin keys
             THEN ValidateFrom_keepsUnknown(c, i + 1, keys, Append(keep, p),
                      AddIssue([s EXCEPT !.unknownPrereqs = @ + 1],
                               Issue(0, "UnknownPrereq", <<p, c.number>>)))
             ELSE ValidateFrom_keepsUnknown(c, i + 1, keys, Append(keep, p), s)

\* inner loop of ValidatePrereqs over c.prereqs from index i:
\* [keep, summary]
RECURSIVE ValidateFrom(_, _, _, _, _)
ValidateFrom(c, i, keys, keep, s) ==
    IF i > Len(c.prereqs) THEN [keep |-> keep, summary |-> s]
    ELSE LET p == c.prereqs[i]
         IN  IF p = c.number
             THEN ValidateFrom(c, i + 1, keys, keep,
                      AddIssue([s EXCEPT !.selfPrereqs = @ + 1],
                               Issue(0, "SelfPrereq", <<c.number>>)))
             ELSE IF p \notin keys
             THEN ValidateFrom(c, i + 1, keys, keep,
                      AddIssue([s EXCEPT !.unknownPrereqs = @ + 1],
                               Issue(0, "UnknownPrereq", <<p, c.number>>)))
             ELSE ValidateFrom(c, i + 1, keys, Append(keep, p), s)

\* ValidatePrereqs: the map is visited in its iteration order ord
\* (a sequence holding every key once): [temp, summary]
RECURSIVE ValidatePrereqs(_, _, _, _)
ValidatePrereqs(tmp, s, ord, n) ==
    IF n > Len(ord) THEN [temp |-> tmp, summary |-> s]
    ELSE LET r == ValidateFrom(tmp[ord[n]], 1, DOMAIN tmp, <<>>, s)
         IN  ValidatePrereqs([tmp EXCEPT ![ord[n]].prereqs = r.keep],
                             r.summary, ord, n + 1)

(* --------------------- pass 2B: cycle detection ------------------------ *)
\* color[v] of an unordered_map: a missing key reads as the default, WHITE
ColorOf(color, v) == IF v \in DOMAIN color THEN color[v] ELSE WHITE

SetKey(f, k, v) == [x \in DOMAIN f \cup {k} |-> IF x = k THEN v ELSE f[x]]

\* while (x != v && !x.empty()) { cyclePath.push_back(x); x = parent[x] or "" }
RECURSIVE WalkParents(_, _, _, _)
WalkParents(x, v, parent, path) ==
    IF x # v /\ x # <<>>
    THEN WalkParents(IF x \in DOMAIN parent THEN parent[x] ELSE <<>>,
                     v, parent, Append(path, x))
    ELSE path

Reverse(s) == [i \in 1..Len(s) |-> s[Len(s) + 1 - i]]

\* the path rebuilt on a back edge u -> v
BackEdgePath(u, v, parent) ==
    Reverse(Append(WalkParents(u, v, parent, <<v>>), v))

\* DFSDetect(u, ...) and its loop over the prerequisites of u from index i.
\* st = [found, color, parent, cyclePath, entered]; entered lists the calls
\* of DFSDetect in order, each with the color its node had on entry
RECURSIVE DFSDetect(_, _, _)
RECURSIVE DFSEdges(_, _, _, _)

\* (mutant) a prerequisite is entered unless it is gray: a black node is
\* traversed again
RECURSIVE DFSEdges_reentersBlack(_, _, _, _)
DFSEdges_reentersBlack(u, i, st, tmp) ==
    IF i > Len(tmp[u].prereqs)
    THEN [st EXCEPT !.color = SetKey(st.color, u, BLACK), !.found = FALSE]
    ELSE LET v == tmp[u].prereqs[i]
         IN  IF ColorOf(st.color, v) # GRAY
             THEN LET r == DFSDetect(v,
                               [st EXCEPT !.parent = SetKey(st.parent, v, u)], tmp)
                  IN  IF r.found THEN r ELSE DFSEdges_reentersBlack(u, i + 1, r, tmp)
             ELSE [st EXCEPT !.found = TRUE,
                             !.cyclePath = BackEdgePath(u, v, st.parent)]

DFSEdges(u, i, st, tmp) ==
    IF i > Len(tmp[u].prereqs)
    THEN [st EXCEPT !.color = SetKey(st.color, u, BLACK), !.found = FALSE]
    ELSE LET v == tmp[u].prereqs[i]
         IN  IF ColorOf(st.color, v) = WHITE
             THEN LET r == DFSDetect(v,
                               [st EXCEPT !.parent = SetKey(st.parent, v, u)], tmp)
                  IN  IF r.found THEN r ELSE DFSEdges(u, i + 1, r, tmp)
             ELSE IF ColorOf(st.color, v) = GRAY
             THEN [st EXCEPT !.found = TRUE,
                             !.cyclePath = BackEdgePath(u, v, st.parent)]
             ELSE DFSEdges(u, i + 1, st, tmp)

DFSDetect(u, st, tmp) ==
    LET st1 == [st EXCEPT !.color = SetKey(st.color, u, GRAY),
                          !.entered = Append(@, [node |-> u,
                                                 color |-> ColorOf(st.color, u)])]
    IN  IF u \in DOMAIN tmp
        THEN DFSEdges(u, 1, st1, tmp)
        ELSE [st1 EXCEPT !.color = SetKey(st1.color, u, BLACK), !.found = FALSE]

SeqRange(s) == {s[i] : i \in 1..Len(s)}

\* loop of DetectCyclesAndMark over the map in iteration order ord from
\* index n.  d = [inCycle, color, parent, entered, summary]
RECURSIVE DetectFrom(_, _, _, _)
DetectFrom(tmp, ord, n, d) ==
    IF n > Len(ord) THEN d
    ELSE LET start == ord[n]
         IN  IF ColorOf(d.color, start) # WHITE
             THEN DetectFrom(tmp, ord, n + 1, d)
             ELSE LET r == DFSDetect(start,
                               [found |-> FALSE, color |-> d.color,
                                parent |-> d.parent, cyclePath |-> <<>>,
                                entered |-> d.entered], tmp)
                  IN  IF r.found
                      THEN DetectFrom(tmp, ord, n + 1,
                               [inCycle |-> d.inCycle \cup SeqRange(r.cyclePath),
                                color   |-> r.color,
                                parent  |-> r.parent,
                                entered |-> r.entered,
                                summary |-> AddIssue(
                                    [d.summary EXCEPT !.cycles = @ + 1],
                                    Issue(0, "Cycle", r.cyclePath))])
                      ELSE DetectFrom(tmp, ord, n + 1,
                               [d EXCEPT !.color = r.color, !.parent = r.parent,
                                         !.entered = r.entered])

\* DetectCyclesAndMark: [inCycle, color, parent, entered, summary]
DetectCyclesAndMark(tmp, s, ord) ==
    DetectFrom(tmp, ord, 1,
               [inCycle |-> {}, color |-> [k \in DOMAIN tmp |-> WHITE],
                parent |-> <<>>, entered |-> <<>>, summary |-> s])

(* ------------------------- final insertion ----------------------------- *)
\* InsertValidated over the map in iteration order ord from index n:
\* [table, summary]
RECURSIVE InsertValidated(_, _, _, _, _, _)
InsertValidated(tmp, cyc, t, s, ord, n) ==
    IF n > Len(ord) THEN [table |-> t, summary |-> s]
    ELSE LET num == ord[n]
             c   == tmp[num]
         IN  IF num \in cyc THEN InsertValidated(tmp, cyc, t, s, ord, n + 1)
             ELSE IF InsertOk(t, c)
             THEN InsertValidated(tmp, cyc, Insert(t, c),
                      [s EXCEPT !.inserted = @ + 1], ord, n + 1)
             ELSE InsertValidated(tmp, cyc, t,
                      [s EXCEPT !.duplicates = @ + 1], ord, n + 1)

\* (mutant) the timing entry is appended before the graph passes run
LoadPasses_timingFirst(tmp, s, t, ord) ==
    LET v == ValidatePrereqs(tmp, AddIssue(s, Issue(0, "Timing", <<>>)), ord, 1)
        d == DetectCyclesAndMark(v.temp, v.summary, ord)
        r == InsertValidated(v.temp, d.inCycle, t, d.summary, ord, 1)
    IN  [temp |-> v.temp, inCycle |-> d.inCycle, table |-> r.table,
         summary |-> r.summary]

\* LoadCoursesFromFile after the getline loop: passes 2A, 2B, the insertion
\* and the trailing timing entry (the elapsed milliseconds are not kept)
LoadPasses(tmp, s, t, ord) ==
    LET v == ValidatePrereqs(tmp, s, ord, 1)
        d == DetectCyclesAndMark(v.temp, v.summary, ord)
        r == InsertValidated(v.temp, d.inCycle, t, d.summary, ord, 1)
    IN  [temp |-> v.temp, inCycle |-> d.inCycle, table |-> r.table,
         summary |-> AddIssue(r.summary, Issue(0, "Timing", <<>>))]

\* (mutant) the failed open also gets the timing entry
LoadOpenFailed_timed ==
    AddIssue(AddIssue(EmptySummary, Issue(0, "FileError", <<>>)),
             Issue(0, "Timing", <<>>))

\* LoadCoursesFromFile when the file cannot be opened
LoadOpenFailed == AddIssue(EmptySummary, Issue(0, "FileError", <<>>))

(* --------------------------- sorted listing ---------------------------- *)
\* (mutant) the shift stops one position early: while (j > 1 && ...)
RECURSIVE ShiftDown_stopsEarly(_, _, _)
ShiftDown_stopsEarly(v, j, key) ==
    IF j > 2 /\ StrLess(key.number, v[j - 1].number)
    THEN ShiftDown_stopsEarly([v EXCEPT ![j] = v[j - 1]], j - 1, key)
    ELSE [v EXCEPT ![j] = key]

\* inner while of the insertion sort, j counted from 1:
\* while (j > 0 && v[j - 1].number > key.number) { v[j] = v[j - 1]; --j; }
RECURSIVE ShiftDown(_, _, _)
ShiftDown(v, j, key) ==
    IF j > 1 /\ StrLess(key.number, v[j - 1].number)
    THEN ShiftDown([v EXCEPT ![j] = v[j - 1]], j - 1, key)
    ELSE [v EXCEPT ![j] = key]

\* for (size_t i = 1; i < v.size(); ++i), i counted from 1
RECURSIVE InsertionSort(_, _)
InsertionSort(v, i) ==
    IF i > Len(v) THEN v ELSE InsertionSort(ShiftDown(v, i, v[i]), i + 1)

\* std::sort with the comparator a.number < b.number: the elements in an
\* order in which no element's number is less than an earlier one's
RECURSIVE StdSort(_)
StdSort(v) ==
    IF v = <<>> THEN <<>>
    ELSE LET m == CHOOSE i \in 1..Len(v) :
                      \A j \in 1..Len(v) : ~StrLess(v[j].number, v[i].number)
         IN  <<v[m]>> \o StdSort(SubSeq(v, 1, m - 1) \o SubSeq(v, m + 1, Len(v)))

\* HashTable::ToVectorSorted
ToVectorSorted(t) ==
    LET v == ToVector(t)
    IN  IF Len(v) < SortThreshold THEN InsertionSort(v, 2) ELSE StdSort(v)

(* ------------------------------ printing ------------------------------- *)
\* what the program printed last is kept in out
Printed(kind) == [kind |-> kind]

\* PrintAll
PrintAll(t) ==
    LET v == ToVectorSorted(t)
    IN  IF v = <<>> THEN Printed("NoCourses")
        ELSE [kind |-> "List", items |-> v]

\* PrintCourse: each prerequisite is looked up again for its title
PrintCourse(t, rawInput) ==
    LET key == NormalizeCourse(rawInput)
        r   == Search(t, key)
    IN  IF ~r.found THEN [kind |-> "CourseNotFound", number |-> key]
        ELSE [kind    |-> "Course",
              number  |-> r.course.number,
              title   |-> r.course.title,
              prereqs |-> [i \in 1..Len(r.course.prereqs) |->
                              LET pc_ == Search(t, r.course.prereqs[i])
                              IN  IF pc_.found
                                  THEN [number |-> pc_.course.number, found |-> TRUE,
                                        title |-> pc_.course.title]
                                  ELSE [number |-> r.course.prereqs[i],
                                        found |-> FALSE]]]

(* ------------------------------ inputs --------------------------------- *)
\* the lines a file may hold
LinePool ==
    { <<65, 44, 120, 44, 66>>,                       \* "A,x,B"
      <<66, 44, 121, 44, 67, 44, 65>>,               \* "B,y,C,A"
      <<67, 44, 120, 44, 66>>,                       \* "C,x,B"
      <<68, 44, 121, 44, 67>>,                       \* "D,y,C"
      <<32, 97, 32, 44, 121, 44, 65, 44, 44, 66>>,   \* " a ,y,A,,B"
      <<65, 44, 32>>,                                \* "A, "
      <<32>> }                                       \* " "

\* what the user may type at the course prompt
Queries ==
    { <<97>>,        \* "a"
      <<32, 66>>,    \* " B"
      <<67>>,        \* "C"
      <<100>>,       \* "d"
      <<32>> }       \* " "

\* every order in which an unordered_map holding the keys S may yield them
Orders(S) ==
    {o \in [1..Cardinality(S) -> S] : \A i, j \in 1..Cardinality(S) : o[i] = o[j] => i = j}

(* --------------------------- the menu loop ----------------------------- *)
\* (mutant) the table is not reset before a load
ResetTable_kept == table

\* table = HashTable(); of MenuLoop
ResetTable == EmptyTable

Init ==
    /\ pc = "menu"
    /\ table = EmptyTable
    /\ hasLoaded = FALSE
    /\ summary = EmptySummary
    /\ temp = <<>>
    /\ inCycle = {}
    /\ lines = <<>>
    /\ fileOpen = FALSE
    /\ out = Printed("Welcome")
    /\ feed = <<>>

\* choice 1, the file cannot be opened
LoadFailed ==
    /\ pc = "menu"
    /\ table' = ResetTable
    /\ fileOpen' = FALSE
    /\ summary' = LoadOpenFailed
    /\ hasLoaded' = (summary'.inserted > 0)
    /\ temp' = <<>>
    /\ inCycle' = {}
    /\ lines' = <<>>
    /\ out' = Printed("LoadSummary")
    /\ UNCHANGED <<pc, feed>>

\* choice 1, the file is open: the load starts
LoadOpened ==
    /\ pc = "menu"
    /\ table' = ResetTable
    /\ fileOpen' = TRUE
    /\ summary' = EmptySummary
    /\ temp' = <<>>
    /\ inCycle' = {}
    /\ lines' = <<>>
    /\ pc' = "parse"
    /\ out' = Printed("FilePrompt")
    /\ UNCHANGED <<hasLoaded, feed>>

\* one iteration of while (getline(fin, line))
ReadLine ==
    /\ pc = "parse"
    /\ Len(lines) < MaxLines
    /\ \E line \in LinePool :
          LET r == LoadLine(temp, summary, line, Len(lines) + 1)
          IN  /\ temp' = r.temp
              /\ summary' = r.summary
              /\ lines' = Append(lines, line)
    /\ UNCHANGED <<pc, table, hasLoaded, inCycle, fileOpen, out, feed>>

\* end of file: the remaining passes, the summary and back to the menu
FinishLoad ==
    /\ pc = "parse"
    /\ \E ord \in Orders(DOMAIN temp) :
          LET r == LoadPasses(temp, summary, table, ord)
          IN  /\ temp' = r.temp
              /\ inCycle' = r.inCycle
              /\ table' = r.table
              /\ summary' = r.summary
              /\ hasLoaded' = (r.summary.inserted > 0)
    /\ pc' = "menu"
    /\ out' = Printed("LoadSummary")
    /\ UNCHANGED <<lines, fileOpen, feed>>

\* choice 2
ListCourses ==
    /\ pc = "menu"
    /\ out' = IF hasLoaded THEN PrintAll(table) ELSE Printed("LoadFirst")
    /\ UNCHANGED <<pc, table, hasLoaded, summary, temp, inCycle, lines, fileOpen, feed>>

\* choice 3
ShowCourse ==
    /\ pc = "menu"
    /\ \E input \in Queries :
          out' = IF ~hasLoaded THEN Printed("LoadFirst")
                 ELSE IF trim(input) = <<>> THEN Printed("Cancelled")
                 ELSE PrintCourse(table, trim(input))
    /\ UNCHANGED <<pc, table, hasLoaded, summary, temp, inCycle, lines, fileOpen, feed>>

\* help, an invalid option, an empty file name: a message and the menu again
MenuMessage ==
    /\ pc = "menu"
    /\ \E m \in {"Help", "InvalidOption", "EmptyFileName"} : out' = Printed(m)
    /\ UNCHANGED <<pc, table, hasLoaded, summary, temp, inCycle, lines, fileOpen, feed>>

\* choice 9 or end of input: MenuLoop returns and the table is destroyed
Exit ==
    /\ pc = "menu"
    /\ pc' = "exit"
    /\ table' = EmptyTable
    /\ hasLoaded' = FALSE
    /\ summary' = EmptySummary
    /\ temp' = <<>>
    /\ inCycle' = {}
    /\ lines' = <<>>
    /\ fileOpen' = FALSE
    /\ out' = Printed("Goodbye")
    /\ UNCHANGED feed

Next ==
    \/ LoadFailed
    \/ LoadOpened
    \/ ReadLine
    \/ FinishLoad
    \/ ListCourses
    \/ ShowCourse
    \/ MenuMessage
    \/ Exit

Spec == Init /\ [][Next]_vars

(* ------------------- direct use of the hash table ---------------------- *)
\* the k-th record of the sorting runs: a two-character identifier
SortCourse(k) ==
    [number |-> <<65 + (k \div 8), 48 + (k % 8)>>, title |-> <<120>>, prereqs |-> <<>>]

\* MaxRecords distinct records, taken from the 64 in steps of stride
SortFeed(stride, first) ==
    [i \in 1..MaxRecords |-> SortCourse((first + (i - 1) * stride) % 64)]

SortFeeds == {SortFeed(1, 0), SortFeed(5, 3), SortFeed(27, 11), SortFeed(63, 63)}

SortInit ==
    /\ pc = "api"
    /\ table = EmptyTable
    /\ feed \in SortFeeds
    /\ hasLoaded = FALSE
    /\ summary = EmptySummary
    /\ temp = <<>>
    /\ inCycle = {}
    /\ lines = <<>>
    /\ fileOpen = FALSE
    /\ out = Printed("None")

\* HashTable::Insert of the next record
ApiInsert ==
    /\ pc = "api"
    /\ feed # <<>>
    /\ table' = Insert(table, Head(feed))
    /\ feed' = Tail(feed)
    /\ out' = Printed("None")
    /\ UNCHANGED <<pc, hasLoaded, summary, temp, inCycle, lines, fileOpen>>

\* HashTable::ToVectorSorted, its result kept in out
ApiListSorted ==
    /\ pc = "api"
    /\ out' = [kind |-> "Sorted", items |-> ToVectorSorted(table)]
    /\ UNCHANGED <<pc, table, hasLoaded, summary, temp, inCycle, lines, fileOpen, feed>>

SortNext ==
    \/ ApiInsert
    \/ ApiListSorted

SortSpec == SortInit /\ [][SortNext]_vars

(* ======================= properties of the load ======================== *)
\* a load of a readable source has completed and the menu is shown
Loaded == pc = "menu" /\ fileOpen

\* the prerequisite graph of a working set: edge owner -> prerequisite
Succ(tmp, k) == IF k \in DOMAIN tmp THEN SeqRange(tmp[k].prereqs) ELSE {}

RECURSIVE ReachFrom(_, _, _)
ReachFrom(tmp, frontier, seen) ==
    IF frontier \subseteq seen THEN seen
    ELSE ReachFrom(tmp, UNION {Succ(tmp, k) : k \in frontier}, seen \cup frontier)

\* k lies on a directed cycle: k is reached from one of its prerequisites
OnCycle(tmp, k) == k \in ReachFrom(tmp, Succ(tmp, k), {})

StoredRecords(t) == SeqRange(ToVector(t))

\* C1: after a load of a readable source, every identifier on a directed
\* cycle of the validated prerequisite graph is in the set returned by
\* DetectCyclesAndMark and is not in the store.
C1_CycleMembersExcluded ==
    Loaded => \A k \in DOMAIN temp :
                 OnCycle(temp, k) => (k \in inCycle /\ ~Search(table, k).found)

\* C2: after a load of a readable source, an identifier on no directed cycle
\* is never cycle-excluded and is in the store.
C2_OnlyCycleMembersExcluded ==
    Loaded => \A k \in DOMAIN temp :
                 ~OnCycle(temp, k) => (k \notin inCycle /\ Search(table, k).found)

IssuesOfType(s, type) == {i \in 1..Len(s.issues) : s.issues[i].type = type}

\* no insertion into the final table failed: every counted duplicate is a
\* parse-time duplicate
NoInsertFailed == summary.duplicates = Cardinality(IssuesOfType(summary, "Duplicate"))

\* C3 as stated: inserted + parse-time duplicates + cycle-excluded records
\* equals parsedCourses.
C3_CountersWithDuplicates ==
    (Loaded /\ NoInsertFailed) =>
        summary.inserted + summary.duplicates + Cardinality(inCycle)
            = summary.parsedCourses

\* C3 (amended): inserted + cycle-excluded records equals parsedCourses;
\* parse-time duplicates are not part of parsedCourses.
C3_Counters ==
    (Loaded /\ NoInsertFailed) =>
        summary.inserted + Cardinality(inCycle) = summary.parsedCourses

C3_Witness ==
    /\ Loaded
    /\ NoInsertFailed
    /\ summary.duplicates > 0
    /\ inCycle # {}

\* C4: a load whose source cannot be opened leaves every lookup and the
\* sorted listing as they were before it.
C4_FailedLoadKeepsStore ==
    [][(pc = "menu" /\ pc' = "menu" /\ out' = Printed("LoadSummary") /\ ~fileOpen')
          => /\ \A q \in Queries : Search(table', q) = Search(table, q)
             /\ ToVectorSorted(table') = ToVectorSorted(table)]_vars

\* C5: once a load of a readable source completes, the store holds exactly
\* the records of that load's working set that were not cycle-excluded, as
\* the working set holds them, and nothing else.
C5_StoreIsThisLoad ==
    Loaded =>
        LET v == ToVector(table)
        IN  /\ SeqRange(v) = {temp[k] : k \in DOMAIN temp \ inCycle}
            /\ Len(v) = Cardinality(DOMAIN temp \ inCycle)

C5_Witness ==
    /\ Loaded
    /\ inCycle # {}
    /\ StoredRecords(table) # {}

(* --------------------- duplicates: first line wins --------------------- *)
\* what the parser makes of each line read so far
LineRecords == [i \in 1..Len(lines) |-> ParseLineCSV(lines[i], i, EmptySummary)]

ValidLines(recs) == {i \in DOMAIN recs : recs[i].ok}

\* the first valid line that normalizes to the identifier k
FirstLine(recs, k) == SetMin({i \in ValidLines(recs) : recs[i].number = k})

\* the valid lines whose identifier an earlier valid line already had
DuplicateLines(recs) ==
    {i \in ValidLines(recs) :
        \E j \in ValidLines(recs) : j < i /\ recs[j].number = recs[i].number}

\* C6: the working set keeps the title (and, until validation prunes them,
\* the prerequisites) of the first valid line of each identifier; every later
\* occurrence adds one to the duplicate counter and exactly one Duplicate
\* diagnostic with its line number, and adds nothing to parsedCourses; after
\* the load, a lookup with any spelling of a stored identifier returns the
\* first occurrence's title.
C6_FirstOccurrenceWins ==
    (pc = "parse" \/ Loaded) =>
        LET recs  == LineRecords
            valid == ValidLines(recs)
            dups  == DuplicateLines(recs)
            dupIs == IssuesOfType(summary, "Duplicate")
        IN  /\ DOMAIN temp = {recs[i].number : i \in valid}
            /\ \A k \in DOMAIN temp :
                  /\ temp[k].title = recs[FirstLine(recs, k)].title
                  /\ pc = "parse" => temp[k].prereqs = recs[FirstLine(recs, k)].prereqs
            /\ summary.duplicates = Cardinality(dups)
            /\ summary.parsedCourses = Cardinality(valid \ dups)
            /\ Cardinality(dupIs) = Cardinality(dups)
            /\ \A i \in dups :
                  \E n \in dupIs :
                     summary.issues[n] = Issue(i, "Duplicate", <<recs[i].number>>)
            /\ Loaded =>
                  \A q \in Queries :
                     NormalizeCourse(q) \in DOMAIN temp \ inCycle =>
                        /\ Search(table, q).found
                        /\ Search(table, q).course.title
                              = recs[FirstLine(recs, NormalizeCourse(q))].title

\* a load with a duplicate line whose title differs from the first one's,
\* found by a lower-case query
C6_Witness ==
    /\ Loaded
    /\ LET recs == LineRecords
           dups == DuplicateLines(recs)
       IN  /\ \E i \in dups : recs[i].title # recs[FirstLine(recs, recs[i].number)].title
           /\ \E q \in Queries :
                 /\ q # NormalizeCourse(q)
                 /\ NormalizeCourse(q) \in {recs[i].number : i \in dups}
                 /\ Search(table, q).found

(* ---------------------- prerequisite validation ------------------------ *)
RECURSIVE SumOver(_, _)
SumOver(S, f) ==
    IF S = {} THEN 0
    ELSE LET x == CHOOSE y \in S : TRUE IN f[x] + SumOver(S \ {x}, f)

\* the entries of a prerequisite list that satisfy keep, in their order
RECURSIVE Filtered(_, _, _)
Filtered(ps, self, keys) ==
    IF ps = <<>> THEN <<>>
    ELSE (IF Head(ps) # self /\ Head(ps) \in keys THEN <<Head(ps)>> ELSE <<>>)
             \o Filtered(Tail(ps), self, keys)

SelfEntries(tmp, k) == {i \in 1..Len(tmp[k].prereqs) : tmp[k].prereqs[i] = k}

UnknownEntries(tmp, k) ==
    {i \in 1..Len(tmp[k].prereqs) :
        tmp[k].prereqs[i] # k /\ tmp[k].prereqs[i] \notin DOMAIN tmp}

\* C7: the step that runs the Prerequisite Validator leaves the key set of
\* the working set, the identifiers and the titles unchanged; every list
\* becomes its entries that differ from the owner and are keys, in order;
\* the self- and unknown-prerequisite counters grow by the number of dropped
\* entries of their kind, with one diagnostic per dropped entry.
C7_ValidatorPrunes ==
    [][(pc = "parse" /\ pc' = "menu") =>
          /\ DOMAIN temp' = DOMAIN temp
          /\ \A k \in DOMAIN temp :
                /\ temp'[k].number = temp[k].number
                /\ temp'[k].title = temp[k].title
                /\ temp'[k].prereqs = Filtered(temp[k].prereqs, k, DOMAIN temp)
                /\ Cardinality({n \in IssuesOfType(summary', "SelfPrereq") :
                                   summary'.issues[n].detail = <<k>>})
                      = Cardinality(SelfEntries(temp, k))
                /\ \A p \in SeqRange(temp[k].prereqs) \ (DOMAIN temp \cup {k}) :
                      Cardinality({n \in IssuesOfType(summary', "UnknownPrereq") :
                                      summary'.issues[n].detail = <<p, k>>})
                         = Cardinality({i \in UnknownEntries(temp, k) :
                                           temp[k].prereqs[i] = p})
          /\ summary'.selfPrereqs = summary.selfPrereqs
                + SumOver(DOMAIN temp, [k \in DOMAIN temp |-> Cardinality(SelfEntries(temp, k))])
          /\ summary'.unknownPrereqs = summary.unknownPrereqs
                + SumOver(DOMAIN temp, [k \in DOMAIN temp |-> Cardinality(UnknownEntries(temp, k))])
          /\ Cardinality(IssuesOfType(summary', "SelfPrereq")) = summary'.selfPrereqs
          /\ Cardinality(IssuesOfType(summary', "UnknownPrereq")) = summary'.unknownPrereqs
      ]_vars

\* a load in which a self entry and an unknown entry were dropped and a
\* known prerequisite was kept
C7_Witness ==
    /\ Loaded
    /\ summary.selfPrereqs > 0
    /\ summary.unknownPrereqs > 0
    /\ \E k \in DOMAIN temp : temp[k].prereqs # <<>>

(* -------------------------- sorted listing ----------------------------- *)
\* C8: the sequence ToVectorSorted returns is strictly ascending by
\* identifier and holds exactly the stored records, each once, for stores
\* below, at and above the threshold; the store still holds exactly the
\* records inserted into it.
C8_SortedPermutation ==
    (pc = "api" /\ out.kind = "Sorted") =>
        /\ \A i \in 1..(Len(out.items) - 1) :
              StrLess(out.items[i].number, out.items[i + 1].number)
        /\ SeqRange(out.items) = StoredRecords(table)
        /\ Len(out.items) = Len(ToVector(table))
        /\ \E f \in SortFeeds :
              LET n == Len(f) - Len(feed)
              IN  /\ feed = SubSeq(f, n + 1, Len(f))
                  /\ StoredRecords(table) = SeqRange(SubSeq(f, 1, n))
                  /\ Len(out.items) = n

\* sorted listings of a store just below, at and above the threshold
C8_WitnessBelow == pc = "api" /\ out.kind = "Sorted" /\ Len(out.items) = SortThreshold - 1
C8_WitnessAt == pc = "api" /\ out.kind = "Sorted" /\ Len(out.items) = SortThreshold
C8_WitnessAbove == pc = "api" /\ out.kind = "Sorted" /\ Len(out.items) = SortThreshold + 1

(* ------------------------ order of diagnostics ------------------------- *)
\* the stage of the load that discovers a diagnostic of the given type
Stage(type) ==
    IF type \in {"MissingField", "Duplicate"} THEN 1
    ELSE IF type \in {"SelfPrereq", "UnknownPrereq"} THEN 2
    ELSE IF type = "Cycle" THEN 3
    ELSE IF type = "Timing" THEN 4
    ELSE 0

\* C9: in the summary of a load of a readable source the line-scoped
\* diagnostics come first, in ascending line order, then the self- and
\* unknown-prerequisite ones, then the Cycle ones, and exactly one Timing
\* diagnostic is present and is last.
C9_DiagnosticOrder ==
    Loaded =>
        LET is == summary.issues
        IN  /\ Len(is) >= 1
            /\ is[Len(is)].type = "Timing"
            /\ Cardinality(IssuesOfType(summary, "Timing")) = 1
            /\ \A i \in 1..Len(is) : Stage(is[i].type) >= 1
            /\ \A i \in 1..Len(is) : Stage(is[i].type) = 1 => is[i].lineNo >= 1
            /\ \A i, j \in 1..Len(is) :
                  i < j => /\ Stage(is[i].type) <= Stage(is[j].type)
                           /\ Stage(is[j].type) = 1 =>
                                 (1 <= is[i].lineNo /\ is[i].lineNo < is[j].lineNo)

\* a summary holding diagnostics of every stage
C9_Witness ==
    /\ Loaded
    /\ \A st \in 1..4 : \E i \in 1..Len(summary.issues) : Stage(summary.issues[i].type) = st
    /\ IssuesOfType(summary, "MissingField") # {}

(* --------------------------- unreadable source ------------------------- *)
\* C10: the summary of a load whose source cannot be opened has every
\* counter at zero and exactly one diagnostic, the file error (no Timing),
\* and no pass has run: no line was read, the working set and the exclusion
\* set are empty and nothing was inserted.
C10_OpenFailure ==
    (pc = "menu" /\ out = Printed("LoadSummary") /\ ~fileOpen) =>
        /\ summary.linesRead = 0
        /\ summary.parsedCourses = 0
        /\ summary.inserted = 0
        /\ summary.duplicates = 0
        /\ summary.unknownPrereqs = 0
        /\ summary.selfPrereqs = 0
        /\ summary.cycles = 0
        /\ Len(summary.issues) = 1
        /\ summary.issues[1].type = "FileError"
        /\ lines = <<>>
        /\ DOMAIN temp = {}
        /\ inCycle = {}
        /\ StoredRecords(table) = {}

C10_Witness == pc = "menu" /\ out = Printed("LoadSummary") /\ ~fileOpen

(* ------------------------- reported cycle paths ------------------------ *)
\* the cycle paths of the summary, as DFSDetect rebuilt them
ReportedPaths ==
    {summary.issues[n].detail : n \in IssuesOfType(summary, "Cycle")}

\* path is a closed walk of the graph of tmp: it ends where it starts and
\* each identifier has the next one among its prerequisites
GenuineCycle(tmp, path) ==
    /\ Len(path) >= 2
    /\ path[1] = path[Len(path)]
    /\ \A i \in 1..(Len(path) - 1) : path[i + 1] \in Succ(tmp, path[i])

\* C11: every cycle path reported in a Cycle diagnostic is a directed cycle
\* of the validated working set: first and last identifier are equal and
\* every consecutive pair (x, y) is an edge from owner x to prerequisite y.
C11_ReportedPathsAreCycles ==
    Loaded => \A path \in ReportedPaths : GenuineCycle(temp, path)

(* -------------------- prerequisites of stored records ------------------ *)
\* C12 as stated: every prerequisite listed in a stored record is itself the
\* identifier of a stored record, so its lookup succeeds.
C12_StoreClosed ==
    Loaded => \A c \in StoredRecords(table) :
                 \A p \in SeqRange(c.prereqs) : Search(table, p).found

\* C12 (amended): every prerequisite listed in a stored record differs from
\* the record's own identifier and names a record of that load's working
\* set; its lookup succeeds exactly when that record was not cycle-excluded,
\* and PrintCourse shows it as found or not found accordingly.
C12_PrereqsInWorkingSet ==
    Loaded => \A c \in StoredRecords(table) :
                 LET shown == PrintCourse(table, c.number)
                 IN  /\ shown.kind = "Course"
                     /\ Len(shown.prereqs) = Len(c.prereqs)
                     /\ \A i \in 1..Len(c.prereqs) :
                           LET p == c.prereqs[i]
                           IN  /\ p # c.number
                               /\ p \in DOMAIN temp
                               /\ Search(table, p).found <=> p \notin inCycle
                               /\ shown.prereqs[i].number = p
                               /\ shown.prereqs[i].found <=> p \notin inCycle

\* a stored record one of whose prerequisites was cycle-excluded
C12_Witness ==
    /\ Loaded
    /\ \E c \in StoredRecords(table) :
          \E p \in SeqRange(c.prereqs) : p \in inCycle /\ ~Search(table, p).found

(* --------------------- termination of cycle detection ------------------ *)
\* the run of the cycle detector that a load makes on the working set built
\* so far when the map yields its keys in the order ord
DetectorRun(ord) ==
    LET v == ValidatePrereqs(temp, summary, ord, 1)
    IN  DetectCyclesAndMark(v.temp, v.summary, ord)

\* the traversal entered every node at most once, each time a white node,
\* and no entered node is white afterwards
EnteredOnce(d) ==
    /\ \A i \in 1..Len(d.entered) : d.entered[i].color = WHITE
    /\ \A i, j \in 1..Len(d.entered) :
          d.entered[i].node = d.entered[j].node => i = j
    /\ \A i \in 1..Len(d.entered) : ColorOf(d.color, d.entered[i].node) # WHITE

\* the parent-link walk that rebuilt a path pushed one identifier per step:
\* the path is the target, the identifiers walked, and the target again
WalkSteps(path) == Len(path) - 2

WalksBounded(d) ==
    \A n \in IssuesOfType(d.summary, "Cycle") :
       /\ WalkSteps(d.summary.issues[n].detail) >= 1
       /\ WalkSteps(d.summary.issues[n].detail) <= Cardinality(DOMAIN temp)

\* the passes that follow the end of the file return the summary, its last
\* entry the timing entry
PassesReturn(ord) ==
    LET r == LoadPasses(temp, summary, table, ord)
    IN  /\ Len(r.summary.issues) >= 1
        /\ r.summary.issues[Len(r.summary.issues)].type = "Timing"
        /\ r.summary.linesRead = Len(lines)

\* C13: for every working set a load builds and every order of its keys,
\* the traversal enters each node at most once, only while it is white, and
\* never leaves it white; each parent-link walk takes at most as many steps
\* as the working set has records; and at the end of the file the passes
\* return the load's summary (the load can always complete).
C13_DetectionTerminates ==
    pc = "parse" =>
        /\ Orders(DOMAIN temp) # {}
        /\ \A ord \in Orders(DOMAIN temp) :
              LET d == DetectorRun(ord)
              IN  EnteredOnce(d) /\ WalksBounded(d) /\ PassesReturn(ord)

\* a load in which two roots each ended at a gray node
C13_Witness ==
    /\ Loaded
    /\ summary.cycles >= 2
    /\ out = Printed("LoadSummary")

====
